---- MODULE Spec2Model ----
(***************************************************************************)
(* A model of the conversation / retry engine of AnalyzerAI                *)
(* (analyzer/model_backend.py): the bounded role-tagged history, the       *)
(* streaming reply assembly, the retry loop of _make_request and           *)
(* generate.  Python strings are TLA+ strings; a Python exception is the   *)
(* name of its class in the variable that records how a call ended.        *)
(***************************************************************************)
EXTENDS Integers, Sequences, FiniteSets, TLC

VARIABLES
    history,           \* ModelBackend.history: list of messages
    history_capacity,  \* ModelBackend.history_capacity
    raised,            \* how the last history operation ended: "none" or an exception class
    calls,             \* number of operations (pushes, loads, generate calls) invoked so far
    pushed,            \* the messages pushed so far, in order (SpecPairs only)
    pc,                \* where the generate call is: "idle", "loop" (head of the
                       \* while of _make_request) or "sleep" (in time.sleep(wait))
    max_retries,       \* ModelBackend.max_retries
    prefer_chat,       \* generate's prefer_chat argument
    messages,          \* _make_request: the message list sent to the server
    attempt,           \* _make_request: attempt
    sleeps,            \* the waits passed to time.sleep by the current call, in order
    netCalls,          \* network calls (requests.post) issued by the current call
    loopExit,          \* how _make_request ended: "none", "return" or an exception class
    lastCall,          \* what the server did with the last network call
    callExc,           \* the exception the last network call raised ("none": it returned)
    onlyTransient,     \* every network call of the current generate call failed with
                       \* a connection error, a timeout or an HTTP 5xx status
    assembled,         \* _call_*_api: "".join(parts).strip() of the last stream read
    outcome,           \* how the last generate call ended: "none", "returned", "raised"
    reply,             \* the text the last generate call returned
    tpc,               \* per thread, where it is inside a history operation: "idle",
                       \* "truncate" (entering _truncate_history) or "assign" (holding
                       \* the locals system and rest, before the cut and the assignment)
    tloc,              \* per thread, the locals system and rest of _truncate_history
    ops,               \* per thread, the history operations it has started, in order
    queue,             \* AnalyzerApp._q: the events queued, oldest first
    enqueued,          \* every event ever put on _q, in the order of the puts
    processed,         \* the events _process_queue has handled, in order
    nput,              \* per producer thread, the number of events it has put
    cpc,               \* _process_queue: "waiting" (rescheduled with root.after) or
                       \* "draining" (inside its while loop)
    wpc,               \* the generate worker: "idle" (no thread), "thread" (in the
                       \* try block of _worker_generate) or "finally"
    wprompt,           \* the prompt on_send handed to the worker
    wbase,             \* the value of calls when on_send started the worker
    running,           \* SystemMonitor._running
    mpc,               \* the thread of start_monitoring: "none" (no thread), "launched"
                       \* (started, before its first statement), "startsleep" (in
                       \* time.sleep(0.5)), "while" (at the loop test), "sleep" (in
                       \* time.sleep(self.interval)) or "exited"
    autonomy,          \* AUTONOMY, read from analyzer_settings.json
    allow_repairs,     \* ALLOW_REPAIRS, read from analyzer_settings.json
    action_history,    \* SystemMonitor.action_history: the names of the actions logged
    actionEvents,      \* the names of the monitor_action events emitted so far
    recorded,          \* the names ever appended to action_history
    tickTrace,         \* what the last tick did, in order: calls of the mitigation
                       \* routines, appends to action_history, events put on the queue
    sample,            \* what the last tick sampled
    ticks,             \* the number of ticks begun
    stopTick,          \* the value of ticks when stop() returned (-1: not called)
    paths,             \* clean_temp_folder: the directories to clean, each with what
                       \* the file system holds there
    cpos,              \* clean_temp_folder: the base and the child its loops are at
    removed,           \* clean_temp_folder: removed
    failed,            \* clean_temp_folder: failed
    deleted,           \* the paths that were actually deleted from the file system
    saved,             \* the text of the file written by save_history_to_file ("": none)
    lastOp             \* the last operation called on the history, and the content of
                       \* the file it read

callVars == <<pc, prefer_chat, messages, attempt, sleeps, netCalls, loopExit, lastCall,
              callExc, onlyTransient, assembled, outcome, reply>>
raceVars == <<tpc, tloc, ops>>
queueVars == <<queue, enqueued, processed, nput, cpc>>
workerVars == <<wpc, wprompt, wbase>>
monVars == <<running, mpc, autonomy, allow_repairs, action_history, actionEvents, recorded,
             tickTrace, sample, ticks, stopTick>>
cleanVars == <<paths, cpos, removed, failed, deleted>>
appVars == <<raceVars, queueVars, workerVars, monVars, cleanVars>>
fileVars == <<saved, lastOp>>
backendVars == <<raised, calls, pushed, max_retries, callVars>>
\* what the steps of SpecRace leave alone, besides some of history,
\* history_capacity and raceVars
raceOthers == <<backendVars, queueVars, workerVars, monVars, cleanVars, fileVars>>
\* what the steps of the event queue leave alone
queueOthers ==
    <<history, history_capacity, backendVars, raceVars, monVars, cleanVars, fileVars>>
\* what the steps of the watchdog leave alone
monOthers == <<history, history_capacity, backendVars, raceVars, queueVars, workerVars,
               cleanVars, fileVars>>
genVars == <<max_retries, callVars, appVars>>
vars == <<history, history_capacity, raised, calls, pushed, max_retries, callVars, appVars,
         fileVars>>

----------------------------------------------------------------------------
(* Bounds of the model *)

MaxCap == 2      \* largest history_capacity tried
MaxCalls == 3    \* history operations per run
MaxLoad == 3     \* longest list read from a history file
ExtraPairs == 5  \* "capacity + 5" pairs of the truncation-order scenario

Texts == {"a", "b"}

----------------------------------------------------------------------------
(* Messages.  A list element is a dict (a message) or some other JSON value. *)

Msg(r, c) == [dict |-> TRUE, role |-> r, content |-> c]

\* a JSON value that is not an object: m.get(...) raises AttributeError on it
NonDict == [dict |-> FALSE, role |-> "", content |-> ""]

\* self.system, shortened to its first sentence and written without its
\* accents: TLC keeps one byte of each character of a string held in a state,
\* and the JSON operators below read the history character by character
SystemText == "Voce e o Analyzer."

SystemMsg == Msg("system", SystemText)

\* Python's seq[-n:] : the last n elements, and the whole list when n = 0
LastSlice(s, n) ==
    IF n = 0 \/ n >= Len(s) THEN s ELSE SubSeq(s, Len(s) - n + 1, Len(s))

IsChatRole(m) == m.role \in {"user", "assistant"}

\* _truncate_history raises AttributeError when .get is called on a non-dict
TruncateRaises(h) == h # <<>> /\ \E i \in 1..Len(h) : ~h[i].dict

TruncCut(rest, cap) == IF Len(rest) > cap + 1 THEN LastSlice(rest, cap + 1) ELSE rest

\* the cut of `rest` to the last `cap` messages
TruncKeep(rest, cap) == IF Len(rest) > cap THEN LastSlice(rest, cap) ELSE rest

\* the value _truncate_history assigns to self.history (when it does not raise)
truncate_history(h, cap) ==
    IF h = <<>> THEN <<SystemMsg>>
    ELSE LET system == IF h[1].role = "system" THEN h[1] ELSE SystemMsg
             rest == SelectSeq(Tail(h), IsChatRole)
         IN  <<system>> \o TruncKeep(rest, cap)

\* self.history after a call of _truncate_history on h: untouched when it raises
AfterTruncate(h, cap) == IF TruncateRaises(h) THEN h ELSE truncate_history(h, cap)

TruncateOutcome(h) == IF TruncateRaises(h) THEN "AttributeError" ELSE "none"

----------------------------------------------------------------------------
(* History operations *)

NoFile == [kind |-> "none", list |-> <<>>]

\* the operation op, which reads no file, was called
Did(op) ==
    /\ lastOp' = [op |-> op, file |-> NoFile]
    /\ UNCHANGED saved

Push(role, text) ==
    LET h == Append(history, Msg(role, text))
    IN  /\ history' = AfterTruncate(h, history_capacity)
        /\ raised' = TruncateOutcome(h)

push_user(text) ==
    /\ calls < MaxCalls
    /\ Push("user", text)
    /\ calls' = calls + 1
    /\ Did("push_user")
    /\ UNCHANGED <<history_capacity, pushed, genVars>>

push_assistant(text) ==
    /\ calls < MaxCalls
    /\ Push("assistant", text)
    /\ calls' = calls + 1
    /\ Did("push_assistant")
    /\ UNCHANGED <<history_capacity, pushed, genVars>>

clear_history(keep_system) ==
    /\ calls < MaxCalls
    /\ history' = IF keep_system THEN <<SystemMsg>> ELSE <<>>
    /\ raised' = "none"
    /\ calls' = calls + 1
    /\ Did("clear_history")
    /\ UNCHANGED <<history_capacity, pushed, genVars>>

\* what a history file may hold, element by element
FileElems ==
    { Msg("system", "other"), Msg("user", "a"), Msg("tool", "a"), NonDict }

RECURSIVE SeqsUpTo(_, _)
SeqsUpTo(S, n) ==
    IF n = 0 THEN {<<>>}
    ELSE LET shorter == SeqsUpTo(S, n - 1)
         IN  shorter \cup { Append(s, e) : s \in { t \in shorter : Len(t) = n - 1 }, e \in S }

\* a file content: unreadable / not JSON, a JSON value that is no list, or a list
FileContents ==
    { [kind |-> "unreadable", list |-> <<>>], [kind |-> "notlist", list |-> <<>>] }
    \cup { [kind |-> "list", list |-> l] : l \in SeqsUpTo(FileElems, MaxLoad) }

\* loaded[0].get("role") raises when the first element is not a dict
LoadHeadRaises(l) == l # <<>> /\ ~l[1].dict

\* the list after "if not loaded or loaded[0].get('role') != 'system': insert"
LoadRepaired(l) ==
    IF l = <<>> \/ l[1].role # "system" THEN <<SystemMsg>> \o l ELSE l

load_history_from_file(file) ==
    /\ calls < MaxCalls
    /\ calls' = calls + 1
    /\ lastOp' = [op |-> "load_history_from_file", file |-> file]
    /\ UNCHANGED <<history_capacity, pushed, genVars, saved>>
    /\ CASE file.kind = "unreadable" ->
              /\ raised' = "OSError"
              /\ UNCHANGED history
         [] file.kind = "notlist" ->
              /\ raised' = "none"
              /\ UNCHANGED history
         [] OTHER ->
              IF LoadHeadRaises(file.list)
              THEN /\ raised' = "AttributeError"
                   /\ UNCHANGED history
              ELSE /\ history' = AfterTruncate(LoadRepaired(file.list), history_capacity)
                   /\ raised' = TruncateOutcome(LoadRepaired(file.list))

----------------------------------------------------------------------------
(* SpecPush: a fresh backend and push_user / push_assistant calls only *)

\* no generate call is running and none has run
InitIdle ==
    /\ pc = "idle"
    /\ prefer_chat = TRUE
    /\ messages = <<>>
    /\ attempt = 0
    /\ sleeps = <<>>
    /\ netCalls = 0
    /\ loopExit = "none"
    /\ lastCall = [kind |-> "none", status |-> 0, lines |-> <<>>]
    /\ callExc = "none"
    /\ onlyTransient = TRUE
    /\ assembled = ""
    /\ outcome = "none"
    /\ reply = ""

DefaultMaxRetries == 3

\* the two threads that touch the history: the worker running generate and
\* the consumer (the thread of the user interface)
Threads == {"worker", "consumer"}

NoLocals == [system |-> SystemMsg, rest |-> <<>>]

\* no thread is inside a history operation
InitThreads ==
    /\ tpc = [t \in Threads |-> "idle"]
    /\ tloc = [t \in Threads |-> NoLocals]
    /\ ops = [t \in Threads |-> <<>>]

\* the threads that put events on _q: two _worker_generate threads (one per
\* on_send) and the _monitor_loop thread
Workers == {"w1", "w2"}
Producers == Workers \cup {"monitor"}

\* an empty queue, the first poll scheduled, no worker thread
InitChannel ==
    /\ queue = <<>>
    /\ enqueued = <<>>
    /\ processed = <<>>
    /\ nput = [p \in Producers |-> 0]
    /\ cpc = "waiting"

InitWorker ==
    /\ wpc = "idle"
    /\ wprompt = ""
    /\ wbase = 0

\* a tick's sample: the three percentages, in tenths of a percent (psutil
\* reports one decimal), and the top processes; error: psutil raised
Sample(c, m, d, t) == [error |-> FALSE, cpu |-> c, mem |-> m, disk |-> d, top |-> t]

NoSample == [error |-> TRUE, cpu |-> 0, mem |-> 0, disk |-> 0, top |-> <<>>]

\* SystemMonitor.__init__, before any tick
InitMonitorFields ==
    /\ running = FALSE
    /\ action_history = <<>>
    /\ actionEvents = <<>>
    /\ recorded = <<>>
    /\ tickTrace = <<>>
    /\ sample = NoSample
    /\ ticks = 0
    /\ stopTick = -1

\* no watchdog thread; the defaults of DIAG.get("autonomy", "B2") and
\* DIAG.get("allow_system_repairs", False)
InitNoWatchdog ==
    /\ InitMonitorFields
    /\ mpc = "none"
    /\ autonomy = "B2"
    /\ allow_repairs = FALSE

\* clean_temp_folder was not called
InitNoClean ==
    /\ paths = <<>>
    /\ cpos = [base |-> 1, child |-> 0]
    /\ removed = <<>>
    /\ failed = <<>>
    /\ deleted = {}

InitApp ==
    /\ InitThreads
    /\ InitChannel
    /\ InitWorker
    /\ InitNoWatchdog
    /\ InitNoClean

\* ModelBackend.__init__
InitBackend ==
    /\ history = <<SystemMsg>>
    /\ raised = "none"
    /\ calls = 0
    /\ pushed = <<>>
    /\ saved = ""
    /\ lastOp = [op |-> "none", file |-> NoFile]
    /\ InitIdle

InitFresh ==
    /\ InitBackend
    /\ InitApp

InitFreshDefault ==
    /\ InitFresh
    /\ max_retries = DefaultMaxRetries

InitPush ==
    /\ InitFreshDefault
    /\ history_capacity \in 0..MaxCap

NextPush ==
    \/ \E t \in Texts : push_user(t)
    \/ \E t \in Texts : push_assistant(t)

SpecPush == InitPush /\ [][NextPush]_vars

----------------------------------------------------------------------------
(* SpecPairs: the truncation-order scenario.  On a fresh backend,          *)
(* push_user then push_assistant, repeated history_capacity + ExtraPairs   *)
(* times; `pushed` records every message pushed.                           *)

InitPairs ==
    /\ InitFreshDefault
    /\ history_capacity \in 1..MaxCap

PairsWanted == history_capacity + ExtraPairs

PairUser(t) ==
    /\ Len(pushed) < 2 * PairsWanted
    /\ Len(pushed) % 2 = 0
    /\ Push("user", t)
    /\ pushed' = Append(pushed, Msg("user", t))
    /\ calls' = calls + 1
    /\ Did("push_user")
    /\ UNCHANGED <<history_capacity, genVars>>

PairAssistant(t) ==
    /\ Len(pushed) % 2 = 1
    /\ Push("assistant", t)
    /\ pushed' = Append(pushed, Msg("assistant", t))
    /\ calls' = calls + 1
    /\ Did("push_assistant")
    /\ UNCHANGED <<history_capacity, genVars>>

NextPairs ==
    \/ \E t \in Texts : PairUser(t)
    \/ \E t \in Texts : PairAssistant(t)

SpecPairs == InitPairs /\ [][NextPairs]_vars

----------------------------------------------------------------------------
(* Text.  A Python str is a TLA+ string; characters are strings of length 1. *)

Char(s, i) == SubSeq(s, i, i)

\* the characters str.strip() and the regex class \s treat as whitespace
IsSpace(c) == c \in {" ", "\n", "\t", "\r"}

RECURSIVE LStrip(_)
LStrip(s) == IF s # "" /\ IsSpace(Char(s, 1)) THEN LStrip(Tail(s)) ELSE s

RECURSIVE RStrip(_)
RStrip(s) ==
    IF s # "" /\ IsSpace(Char(s, Len(s))) THEN RStrip(SubSeq(s, 1, Len(s) - 1)) ELSE s

\* str.strip()
Strip(s) == RStrip(LStrip(s))

UpperLetters == "ABCDEFGHIJKLMNOPQRSTUVWXYZ"
LowerLetters == "abcdefghijklmnopqrstuvwxyz"

LetterIndex == [i \in 1..26 |-> Char(UpperLetters, i)]

LowerChar(c) ==
    IF \E i \in 1..26 : LetterIndex[i] = c
    THEN Char(LowerLetters, CHOOSE i \in 1..26 : LetterIndex[i] = c)
    ELSE c

RECURSIVE Lower(_)
\* str.lower(), on the letters A-Z
Lower(s) ==
    IF Len(s) <= 1 THEN LowerChar(s)
    ELSE Lower(SubSeq(s, 1, Len(s) \div 2)) \o Lower(SubSeq(s, Len(s) \div 2 + 1, Len(s)))

\* re.search of a literal f in s
Contains(s, f) ==
    \E i \in 1..(Len(s) - Len(f) + 1) : SubSeq(s, i, i + Len(f) - 1) = f

\* re.sub(r"\s+\n", "\n", s) deletes the character at i when it is whitespace
\* and a newline follows it inside its run of whitespace: a match runs from the
\* start of a run to the run's last newline, which is what replaces it
Collapsed(s, i) ==
    /\ IsSpace(Char(s, i))
    /\ \E k \in (i + 1)..Len(s) :
          /\ Char(s, k) = "\n"
          /\ \A m \in i..k : IsSpace(Char(s, m))

\* what re.sub(r"\s+\n", "\n", s) leaves of the positions lo..hi of s
RECURSIVE CollapseRange(_, _, _)
CollapseRange(s, lo, hi) ==
    IF lo > hi THEN ""
    ELSE IF lo = hi THEN (IF Collapsed(s, lo) THEN "" ELSE Char(s, lo))
    ELSE CollapseRange(s, lo, (lo + hi) \div 2)
         \o CollapseRange(s, (lo + hi) \div 2 + 1, hi)

\* re.sub(r"\s+\n", "\n", s), from position p on
CollapseFrom(s, p) == CollapseRange(s, p, Len(s))

IsTerminator(c) == c \in {".", "?", "!"}

\* the first position at or after p that holds a sentence terminator (Len + 1 if none)
StretchEnd(s, p) ==
    LET ends == { j \in p..Len(s) : IsTerminator(Char(s, j)) }
    IN  IF ends = {} THEN Len(s) + 1
        ELSE CHOOSE j \in ends : \A k \in ends : j <= k

\* re.sub(r"[^.?!]*(f)[^.?!]*[.?!]?", "", s, flags=re.IGNORECASE) from position p:
\* a terminator-free stretch that holds f goes, with the terminator that ends it
RECURSIVE RemoveSentencesFrom(_, _, _)
RemoveSentencesFrom(s, f, p) ==
    IF p > Len(s) THEN ""
    ELSE LET q == StretchEnd(s, p)
         IN  IF Contains(Lower(SubSeq(s, p, q - 1)), f)
             THEN RemoveSentencesFrom(s, f, q + 1)
             ELSE SubSeq(s, p, IF q > Len(s) THEN Len(s) ELSE q)
                  \o RemoveSentencesFrom(s, f, q + 1)

forbidden ==
    << "anthropic", "openai", "meta", "trained by", "trained on", "i was trained",
       "i am a large" >>

\* the loop stopped after the first term of `forbidden`
FilterFirstTerm(text, lowered, i) ==
    IF Contains(lowered, forbidden[1])
    THEN Strip(RemoveSentencesFrom(text, forbidden[1], 1))
    ELSE text

\* the loop over `forbidden`: the test reads `lowered`, computed once before the loop
RECURSIVE FilterForbidden(_, _, _)
FilterForbidden(text, lowered, i) ==
    IF i > Len(forbidden) THEN text
    ELSE IF Contains(lowered, forbidden[i])
         THEN FilterForbidden(Strip(RemoveSentencesFrom(text, forbidden[i], 1)), lowered, i + 1)
         ELSE FilterForbidden(text, lowered, i + 1)

\* written without its accents, as SystemText is
PolicyNotice ==
    "[ERRO] Resposta removida por politica interna. Peca para reformular a pergunta."

ClarifySuffix == "\n\nSe precisar, descreva com mais detalhes sua pergunta."

MinReplyLen == 8

\* _post_process_reply
post_process_reply(text) ==
    IF text = "" THEN text
    ELSE LET t1 == Strip(CollapseFrom(text, 1))
             t2 == FilterForbidden(t1, Lower(t1), 1)
             t3 == IF t2 = "" THEN PolicyNotice ELSE t2
         IN  IF Len(t3) < MinReplyLen THEN t3 \o ClarifySuffix ELSE t3

----------------------------------------------------------------------------
(* The history file.  save_history_to_file writes json.dump(self.history,   *)
(* f, ensure_ascii=False, indent=2); load_history_from_file reads it back   *)
(* with json.load.  A list element that is no dict is written as 5.         *)

\* the escapes json.dump writes inside a string
JsonEscapeChar(c) ==
    CASE c = "\"" -> "\\\""
      [] c = "\\" -> "\\\\"
      [] c = "\n" -> "\\n"
      [] c = "\t" -> "\\t"
      [] c = "\r" -> "\\r"
      [] OTHER -> c

RECURSIVE JsonEscape(_)
JsonEscape(s) == IF s = "" THEN "" ELSE JsonEscapeChar(Char(s, 1)) \o JsonEscape(Tail(s))

JsonString(s) == "\"" \o JsonEscape(s) \o "\""

\* one element of the list, at indent 2
JsonElement(m) ==
    IF m.dict
    THEN "{\n    \"role\": " \o JsonString(m.role)
         \o ",\n    \"content\": " \o JsonString(m.content) \o "\n  }"
    ELSE "5"

RECURSIVE JsonElements(_, _)
JsonElements(h, i) ==
    IF i = Len(h) THEN JsonElement(h[i])
    ELSE JsonElement(h[i]) \o ",\n  " \o JsonElements(h, i + 1)

\* json.dump(history, f, ensure_ascii=False, indent=2)
JsonDump(h) == IF h = <<>> THEN "[]" ELSE "[\n  " \o JsonElements(h, 1) \o "\n]"

\* the first position at or after p that holds no whitespace
RECURSIVE SkipSpace(_, _)
SkipSpace(s, p) == IF p <= Len(s) /\ IsSpace(Char(s, p)) THEN SkipSpace(s, p + 1) ELSE p

JsonUnescapeChar(c) ==
    CASE c = "n" -> "\n"
      [] c = "t" -> "\t"
      [] c = "r" -> "\r"
      [] OTHER -> c

\* the JSON string whose first character (after the quote) is at p: its
\* value and the position after its closing quote
RECURSIVE ScanString(_, _)
ScanString(s, p) ==
    IF p > Len(s) THEN [val |-> "", next |-> p]
    ELSE IF Char(s, p) = "\"" THEN [val |-> "", next |-> p + 1]
    ELSE IF Char(s, p) = "\\"
         THEN LET r == ScanString(s, p + 2)
              IN  [val |-> JsonUnescapeChar(Char(s, p + 1)) \o r.val, next |-> r.next]
         ELSE LET r == ScanString(s, p + 1)
              IN  [val |-> Char(s, p) \o r.val, next |-> r.next]

\* the members of a JSON object from p (a quote or the closing brace) on,
\* added to the dict m
RECURSIVE ScanMembers(_, _, _)
ScanMembers(s, p, m) ==
    IF p > Len(s) \/ Char(s, p) = "}" THEN [val |-> m, next |-> p + 1]
    ELSE LET key == ScanString(s, p + 1)
             colon == SkipSpace(s, key.next)
             value == ScanString(s, SkipSpace(s, colon + 1) + 1)
             after == SkipSpace(s, value.next)
             m2 == CASE key.val = "role" -> [m EXCEPT !.role = value.val]
                     [] key.val = "content" -> [m EXCEPT !.content = value.val]
                     [] OTHER -> m
         IN  ScanMembers(s, IF after <= Len(s) /\ Char(s, after) = ","
                            THEN SkipSpace(s, after + 1) ELSE after, m2)

Digits == {"0", "1", "2", "3", "4", "5", "6", "7", "8", "9"}

RECURSIVE SkipDigits(_, _)
SkipDigits(s, p) == IF p <= Len(s) /\ Char(s, p) \in Digits THEN SkipDigits(s, p + 1) ELSE p

\* the elements of a JSON array from p (an element or the closing bracket) on
RECURSIVE ScanElements(_, _)
ScanElements(s, p) ==
    IF p > Len(s) \/ Char(s, p) = "]" THEN <<>>
    ELSE LET e == IF Char(s, p) = "{"
                  THEN ScanMembers(s, SkipSpace(s, p + 1), Msg("", ""))
                  ELSE [val |-> NonDict, next |-> SkipDigits(s, p + 1)]
             after == SkipSpace(s, e.next)
         IN  <<e.val>> \o ScanElements(s, IF after <= Len(s) /\ Char(s, after) = ","
                                          THEN SkipSpace(s, after + 1) ELSE after)

\* json.load(f) of a file holding the text t, as a file content
JsonLoad(t) ==
    LET p == SkipSpace(t, 1)
    IN  IF p > Len(t) THEN [kind |-> "unreadable", list |-> <<>>]
        ELSE IF Char(t, p) # "[" THEN [kind |-> "notlist", list |-> <<>>]
        ELSE [kind |-> "list", list |-> ScanElements(t, SkipSpace(t, p + 1))]

\* save_history_to_file(path): the file holds the dump of self.history
save_history_to_file ==
    /\ calls < MaxCalls
    /\ saved = ""
    /\ saved' = JsonDump(history)
    /\ lastOp' = [op |-> "save_history_to_file", file |-> NoFile]
    /\ raised' = "none"
    /\ UNCHANGED <<history, history_capacity, calls, pushed, genVars>>

\* load_history_from_file(path) of the file just saved
load_saved_file ==
    /\ lastOp.op = "save_history_to_file"
    /\ load_history_from_file(JsonLoad(saved))

----------------------------------------------------------------------------
(* Spec: every history operation, in any order; the history may be saved   *)
(* once, and the saved file loaded back                                     *)

Init ==
    /\ InitFreshDefault
    /\ history_capacity \in 1..MaxCap

Next ==
    \/ \E t \in Texts : push_user(t)
    \/ \E t \in Texts : push_assistant(t)
    \/ \E k \in BOOLEAN : clear_history(k)
    \/ \E f \in FileContents : load_history_from_file(f)
    \/ save_history_to_file
    \/ load_saved_file

Spec == Init /\ [][Next]_vars

----------------------------------------------------------------------------
(* The response stream.  A line of resp.iter_lines() is blank, is not JSON, *)
(* decodes to a dict of one of the wire shapes (or of none: "unknown"), or  *)
(* decodes to a JSON value that is no dict ("nondict": a list, a string, a  *)
(* number, null).  `done` is the truth of obj.get("done").                  *)

MaxLines == 4    \* longest stream in SpecStream

Line(k, t, d) == [kind |-> k, text |-> t, done |-> d]

\* the text _call_chat_api appends for a decoded dict
ChatFragmentText(l) ==
    IF l.kind \in {"message", "response", "text", "choices"} THEN l.text ELSE ""

\* the text _call_generate_api appends: it knows no {"message": {...}} shape
GenerateFragmentText(l) ==
    IF l.kind \in {"response", "text", "choices"} THEN l.text ELSE ""

FragmentText(l, chat) == IF chat THEN ChatFragmentText(l) ELSE GenerateFragmentText(l)

RECURSIVE ReadNoBreak(_, _, _)
ReadNoBreak(ls, chat, i) ==
    IF i > Len(ls) THEN [exc |-> "none", text |-> ""]
    ELSE IF ls[i].kind \in {"blank", "notjson"} THEN ReadNoBreak(ls, chat, i + 1)
    ELSE IF ls[i].kind = "nondict" THEN [exc |-> "AttributeError", text |-> ""]
    ELSE LET r == ReadNoBreak(ls, chat, i + 1)
         IN  [exc |-> r.exc, text |-> FragmentText(ls[i], chat) \o r.text]

\* the for loop over resp.iter_lines(), from line i: the joined parts, or the
\* exception that obj.get("done") raises on a value that is no dict
RECURSIVE ReadFrom(_, _, _)
ReadFrom(ls, chat, i) ==
    IF i > Len(ls) THEN [exc |-> "none", text |-> ""]
    ELSE IF ls[i].kind \in {"blank", "notjson"} THEN ReadFrom(ls, chat, i + 1)
    ELSE IF ls[i].kind = "nondict" THEN [exc |-> "AttributeError", text |-> ""]
    ELSE IF ls[i].done THEN [exc |-> "none", text |-> FragmentText(ls[i], chat)]
    ELSE LET r == ReadFrom(ls, chat, i + 1)
         IN  [exc |-> r.exc, text |-> FragmentText(ls[i], chat) \o r.text]

\* _call_chat_api / _call_generate_api on a 2xx response with these lines:
\* the exception raised ("none": the call returns), the assembled text, the
\* value returned
ApiExc(ls, chat) == ReadFrom(ls, chat, 1).exc

ApiAssembled(ls, chat) == Strip(ReadFrom(ls, chat, 1).text)

ApiReply(ls, chat) == post_process_reply(ApiAssembled(ls, chat))

\* what the server may do with one request
Refused == [kind |-> "refused", status |-> 0, lines |-> <<>>]
TimedOut == [kind |-> "timeout", status |-> 0, lines |-> <<>>]
Response(st, ls) == [kind |-> "response", status |-> st, lines |-> ls]

\* resp.raise_for_status()
RaisesForStatus(st) == st >= 400 /\ st < 600

\* the exception one network call ends with ("none": it returns)
CallExc(o, chat) ==
    CASE o.kind = "refused" -> "ConnectionError"
      [] o.kind = "timeout" -> "Timeout"
      [] o.kind = "response" /\ RaisesForStatus(o.status) -> "HTTPError"
      [] OTHER -> ApiExc(o.lines, chat)

\* a connection error, a timeout or an HTTP 5xx answer
IsTransient(o) ==
    \/ o.kind \in {"refused", "timeout"}
    \/ o.kind = "response" /\ o.status >= 500 /\ o.status < 600

\* the subclasses of requests.exceptions.RequestException
IsRequestException(e) == e \in {"ConnectionError", "Timeout", "HTTPError", "RequestException"}

----------------------------------------------------------------------------
(* generate and _make_request.  The application builds its backend with    *)
(* provider "ollama" (main.py), so the "[SIMULADO]" branches are not taken. *)

MaxRetries == 5    \* largest max_retries tried
MaxGenCalls == 2   \* generate / load calls per run of SpecGen

BackoffCap == 20

RECURSIVE Pow2(_)
Pow2(n) == IF n <= 0 THEN 1 ELSE 2 * Pow2(n - 1)

Min(a, b) == IF a <= b THEN a ELSE b

BackoffCap30(a) == Min(2 * Pow2(a - 1), 30)

\* wait = min(2 * (2 ** (attempt - 1)), 20), attempt already incremented
Backoff(a) == Min(2 * Pow2(a - 1), BackoffCap)

EmptyReplyText == "[ERRO] O modelo retornou resposta vazia."

\* str(e) of the exceptions that reach generate's except clause
ExcMessage(e) ==
    CASE e = "RequestException" -> "Max retries exceeded contacting Ollama"
      [] e = "AttributeError" -> "'list' object has no attribute 'get'"
      [] OTHER -> e

Fallback(e) == "[ERRO OLLAMA] " \o ExcMessage(e) \o ". Resposta fallback."

\* generate's except clause: push the fallback and return it (the push raises
\* out of generate when _truncate_history does)
FailReturn(h0, e) ==
    LET h == Append(h0, Msg("assistant", Fallback(e)))
    IN  /\ history' = AfterTruncate(h, history_capacity)
        /\ raised' = TruncateOutcome(h)
        /\ outcome' = IF TruncateRaises(h) THEN "raised" ELSE "returned"
        /\ reply' = IF TruncateRaises(h) THEN "" ELSE Fallback(e)
        /\ pc' = "idle"

\* generate's try body after _make_request returned r
SuccessReturn(r) ==
    LET text == IF r = "" THEN EmptyReplyText ELSE r
        h == Append(history, Msg("assistant", text))
    IN  IF TruncateRaises(h)
        THEN FailReturn(h, "AttributeError")
        ELSE /\ history' = truncate_history(h, history_capacity)
             /\ raised' = "none"
             /\ outcome' = "returned"
             /\ reply' = text
             /\ pc' = "idle"

NoCall == [kind |-> "none", status |-> 0, lines |-> <<>>]

\* the history alone, without the prompt appended to the copy
SnapshotOnly(h, user_prompt) == h

\* messages = list(self.history); messages.append({"role": "user", "content": user_prompt})
Snapshot(h, user_prompt) == Append(h, Msg("user", user_prompt))

Generate(p, chat) ==
    /\ pc = "idle"
    /\ calls < MaxGenCalls
    /\ calls' = calls + 1
    /\ prefer_chat' = chat
    /\ attempt' = 0
    /\ sleeps' = <<>>
    /\ netCalls' = 0
    /\ loopExit' = "none"
    /\ lastCall' = NoCall
    /\ callExc' = "none"
    /\ onlyTransient' = TRUE
    /\ assembled' = ""
    /\ reply' = ""
    /\ Did("generate")
    /\ UNCHANGED <<history_capacity, max_retries, pushed, appVars>>
    /\ LET user_prompt == Strip(p)
           h == Append(history, Msg("user", user_prompt))
       IN  IF user_prompt = ""
           THEN /\ outcome' = "returned"
                /\ messages' = <<>>
                /\ UNCHANGED <<history, raised, pc>>
           ELSE /\ history' = AfterTruncate(h, history_capacity)
                /\ raised' = TruncateOutcome(h)
                /\ IF TruncateRaises(h)
                   THEN /\ outcome' = "raised"
                        /\ messages' = <<>>
                        /\ pc' = "idle"
                   ELSE /\ outcome' = "none"
                        /\ messages' = Snapshot(history', user_prompt)
                        /\ pc' = "loop"

\* one pass of the while body: the network call and what follows it
Attempt(o) ==
    /\ pc = "loop"
    /\ attempt <= max_retries
    /\ netCalls' = netCalls + 1
    /\ lastCall' = o
    /\ callExc' = CallExc(o, prefer_chat)
    /\ onlyTransient' = (onlyTransient /\ IsTransient(o))
    /\ assembled' = IF callExc' = "none" THEN ApiAssembled(o.lines, prefer_chat) ELSE ""
    /\ UNCHANGED <<history_capacity, max_retries, pushed, calls, prefer_chat, messages,
                   appVars, fileVars>>
    /\ IF IsRequestException(callExc')
       THEN /\ attempt' = attempt + 1
            /\ sleeps' = Append(sleeps, Backoff(attempt'))
            /\ pc' = "sleep"
            /\ UNCHANGED <<history, raised, outcome, reply, loopExit>>
       ELSE /\ UNCHANGED <<attempt, sleeps>>
            /\ IF callExc' = "none"
               THEN /\ loopExit' = "return"
                    /\ SuccessReturn(ApiReply(o.lines, prefer_chat))
               ELSE /\ loopExit' = callExc'
                    /\ FailReturn(history, callExc')

\* time.sleep(wait) returns
Wake ==
    /\ pc = "sleep"
    /\ pc' = "loop"
    /\ UNCHANGED <<history, history_capacity, raised, calls, pushed, max_retries, prefer_chat,
                   messages, attempt, sleeps, netCalls, loopExit, lastCall, callExc,
                   onlyTransient, assembled, outcome, reply, appVars, fileVars>>

\* the while condition fails: raise RequestException("Max retries exceeded ...")
Exhaust ==
    /\ pc = "loop"
    /\ attempt > max_retries
    /\ loopExit' = "RequestException"
    /\ FailReturn(history, "RequestException")
    /\ UNCHANGED <<history_capacity, calls, pushed, max_retries, prefer_chat, messages,
                   attempt, sleeps, netCalls, lastCall, callExc, onlyTransient, assembled,
                   appVars, fileVars>>

\* the url of _call_chat_api and of _call_generate_api
Endpoint(chat) == IF chat THEN "/api/chat" ELSE "/api/generate"

\* the urls the current generate call has posted to, in order: every pass of
\* the while body calls the routine that prefer_chat selects
Posted == [i \in 1..netCalls |-> Endpoint(prefer_chat)]

Prompts == {"  ", " hi ", "what is 2+2"}

Final == Line("message", "", TRUE)

GenStreams ==
    { <<>>,
      <<Line("message", "He", FALSE), Line("message", "llo the", FALSE),
        Line("message", "re", FALSE), Final>>,
      <<Line("response", "ok", TRUE)>>,
      <<Line("message", "I was trained by OpenAI.", FALSE), Final>>,
      <<Line("notjson", "", FALSE), Line("text", "Hello there", FALSE)>>,
      <<Line("message", "4", FALSE), Line("nondict", "", FALSE), Final>> }

NetOutcomes ==
    { Refused, TimedOut, Response(404, <<>>), Response(500, <<>>) }
    \cup { Response(200, ls) : ls \in GenStreams }

\* history files tried in SpecGen: a system message and one more element
GenFiles ==
    { f \in FileContents : f.kind = "list" /\ Len(f.list) = 2 /\ f.list[1].role = "system" }

InitGen ==
    /\ InitFresh
    /\ history_capacity \in {1, 2 * MaxGenCalls}
    /\ max_retries \in 0..MaxRetries

LoadIdle(f) ==
    /\ pc = "idle"
    /\ calls < MaxGenCalls
    /\ load_history_from_file(f)

NextGen ==
    \/ \E p \in Prompts, chat \in BOOLEAN : Generate(p, chat)
    \/ \E f \in GenFiles : LoadIdle(f)
    \/ \E o \in NetOutcomes : Attempt(o)
    \/ Wake
    \/ Exhaust

SpecGen == InitGen /\ [][NextGen]_vars

----------------------------------------------------------------------------
(* SpecStream: one call of _call_chat_api or _call_generate_api on a 2xx   *)
(* response, for every stream of at most MaxLines lines.                    *)

StreamLines ==
    { Line("message", "He", FALSE), Line("message", "llo the", FALSE),
      Line("message", "re", FALSE), Final,
      Line("response", " ok ", TRUE), Line("notjson", "", FALSE),
      Line("unknown", "", FALSE), Line("nondict", "", FALSE) }

Streams == SeqsUpTo(StreamLines, MaxLines)

ApiCallStep(ls, chat) ==
    /\ calls' = 1
    /\ prefer_chat' = chat
    /\ netCalls' = 1
    /\ lastCall' = Response(200, ls)
    /\ callExc' = ApiExc(ls, chat)
    /\ assembled' = IF callExc' = "none" THEN ApiAssembled(ls, chat) ELSE ""
    /\ UNCHANGED <<history, history_capacity, raised, pushed, max_retries, pc, messages,
                   attempt, sleeps, loopExit, onlyTransient, outcome, reply, appVars,
                   fileVars>>

call_chat_api ==
    /\ calls = 0
    /\ \E ls \in Streams : ApiCallStep(ls, TRUE)

call_generate_api ==
    /\ calls = 0
    /\ \E ls \in Streams : ApiCallStep(ls, FALSE)

NextStream ==
    \/ call_chat_api
    \/ call_generate_api

InitStream ==
    /\ InitFreshDefault
    /\ history_capacity = MaxCap

SpecStream == InitStream /\ [][NextStream]_vars

----------------------------------------------------------------------------
(* SpecPost: _post_process_reply as a function of its argument.  The first  *)
(* call is applied to a text built from at most MaxPieces pieces; the       *)
(* second call is applied to what the first returned.  `assembled` holds    *)
(* the argument of the first call, `reply` what the last call returned.     *)

MaxPieces == 3   \* longest text, in pieces

Pieces ==
    { "Hi.", " I use OpenAI!", " Fine, thanks.", "ok", "\n\n\n", " \n", " Made by META?" }

RECURSIVE Concat(_)
Concat(ps) == IF ps = <<>> THEN "" ELSE Head(ps) \o Concat(Tail(ps))

PostTexts == { Concat(ps) : ps \in SeqsUpTo(Pieces, MaxPieces) }

PostStep(arg) ==
    /\ calls' = calls + 1
    /\ reply' = post_process_reply(arg)
    /\ UNCHANGED <<history, history_capacity, raised, pushed, max_retries, pc, prefer_chat,
                   messages, attempt, sleeps, netCalls, loopExit, lastCall, callExc,
                   onlyTransient, assembled, outcome, appVars, fileVars>>

\* assembled = self._post_process_reply(assembled)
post_process ==
    /\ calls = 0
    /\ PostStep(assembled)

\* the function applied to its own result
post_process_again ==
    /\ calls = 1
    /\ PostStep(reply)

\* a fresh backend whose _call_*_api has joined the text `assembled`
InitPost ==
    /\ history = <<SystemMsg>>
    /\ history_capacity = MaxCap
    /\ max_retries = DefaultMaxRetries
    /\ raised = "none"
    /\ calls = 0
    /\ pushed = <<>>
    /\ saved = ""
    /\ lastOp = [op |-> "none", file |-> NoFile]
    /\ pc = "idle"
    /\ prefer_chat = TRUE
    /\ messages = <<>>
    /\ attempt = 0
    /\ sleeps = <<>>
    /\ netCalls = 0
    /\ loopExit = "none"
    /\ lastCall = [kind |-> "none", status |-> 0, lines |-> <<>>]
    /\ callExc = "none"
    /\ onlyTransient = TRUE
    /\ assembled \in PostTexts
    /\ outcome = "none"
    /\ reply = ""
    /\ InitApp

NextPost ==
    \/ post_process
    \/ post_process_again

SpecPost == InitPost /\ [][NextPost]_vars

----------------------------------------------------------------------------
(* SpecRace: the history under two threads.  The worker runs generate       *)
(* (push_user, later push_assistant); the consumer runs on_clear,           *)
(* on_load_history and the settings dialog's apply_changes.  No lock        *)
(* guards self.history, so a thread switch may fall between the statements *)
(* of an operation: after the append, and inside _truncate_history between  *)
(* the reads of self.history and the final assignment.                      *)

MaxConsumerOps == 2   \* operations of the consumer per run

PushOp(r, t) == [kind |-> "push", role |-> r, text |-> t, list |-> <<>>, cap |-> 0]
ClearOp == [kind |-> "clear", role |-> "", text |-> "", list |-> <<>>, cap |-> 0]
LoadOp(l) == [kind |-> "load", role |-> "", text |-> "", list |-> l, cap |-> 0]
ApplyOp(c) == [kind |-> "apply", role |-> "", text |-> "", list |-> <<>>, cap |-> c]

\* the thread t starts the operation op
Started(t, op) == ops' = [ops EXCEPT ![t] = Append(@, op)]

\* self.history.append({"role": role, "content": text}), the first statement
\* of push_user / push_assistant, on the thread t
HistoryAppend(t, role, text) ==
    /\ tpc[t] = "idle"
    /\ history' = Append(history, Msg(role, text))
    /\ tpc' = [tpc EXCEPT ![t] = "truncate"]
    /\ Started(t, PushOp(role, text))
    /\ UNCHANGED <<history_capacity, tloc>>

\* generate's push_user(user_prompt), then (the network call over) its
\* push_assistant(reply)
worker_push_user ==
    /\ ops["worker"] = <<>>
    /\ HistoryAppend("worker", "user", "a")
    /\ UNCHANGED raceOthers

worker_push_assistant ==
    /\ Len(ops["worker"]) = 1
    /\ HistoryAppend("worker", "assistant", "b")
    /\ UNCHANGED raceOthers

\* _truncate_history up to the list comprehension: the empty history is
\* replaced at once, otherwise system and rest are read from self.history
TruncateRead(t) ==
    /\ tpc[t] = "truncate"
    /\ IF history = <<>>
       THEN /\ history' = <<SystemMsg>>
            /\ tpc' = [tpc EXCEPT ![t] = "idle"]
            /\ UNCHANGED tloc
       ELSE /\ tloc' = [tloc EXCEPT ![t] =
                           [system |-> IF history[1].role = "system" THEN history[1]
                                       ELSE SystemMsg,
                            rest |-> SelectSeq(Tail(history), IsChatRole)]]
            /\ tpc' = [tpc EXCEPT ![t] = "assign"]
            /\ UNCHANGED history
    /\ UNCHANGED <<history_capacity, ops, raceOthers>>

\* the cut of rest and self.history = [system] + rest
TruncateAssign(t) ==
    /\ tpc[t] = "assign"
    /\ history' = <<tloc[t].system>> \o TruncKeep(tloc[t].rest, history_capacity)
    /\ tpc' = [tpc EXCEPT ![t] = "idle"]
    /\ tloc' = [tloc EXCEPT ![t] = NoLocals]
    /\ UNCHANGED <<history_capacity, ops, raceOthers>>

ConsumerFree == tpc["consumer"] = "idle" /\ Len(ops["consumer"]) < MaxConsumerOps

\* on_clear: self.backend.clear_history(keep_system=True)
on_clear ==
    /\ ConsumerFree
    /\ history' = <<SystemMsg>>
    /\ Started("consumer", ClearOp)
    /\ UNCHANGED <<history_capacity, tpc, tloc, raceOthers>>

\* the lists of messages read from a history file by the consumer
RaceFiles == { <<Msg("system", "other"), Msg("user", "b")>>, <<Msg("assistant", "a")>> }

\* on_load_history: load_history_from_file up to self.history = loaded
on_load_history(l) ==
    /\ ConsumerFree
    /\ history' = LoadRepaired(l)
    /\ tpc' = [tpc EXCEPT !["consumer"] = "truncate"]
    /\ Started("consumer", LoadOp(l))
    /\ UNCHANGED <<history_capacity, tloc, raceOthers>>

\* apply_changes: self.backend.history_capacity = new_cap, before its call
\* of self.backend._truncate_history()
apply_changes(new_cap) ==
    /\ ConsumerFree
    /\ history_capacity' = new_cap
    /\ tpc' = [tpc EXCEPT !["consumer"] = "truncate"]
    /\ Started("consumer", ApplyOp(new_cap))
    /\ UNCHANGED <<history, tloc, raceOthers>>

InitRace ==
    /\ InitFreshDefault
    /\ history_capacity = MaxCap

NextRace ==
    \/ worker_push_user
    \/ worker_push_assistant
    \/ \E t \in Threads : TruncateRead(t)
    \/ \E t \in Threads : TruncateAssign(t)
    \/ on_clear
    \/ \E l \in RaceFiles : on_load_history(l)
    \/ \E c \in 1..MaxCap : apply_changes(c)

SpecRace == InitRace /\ [][NextRace]_vars

----------------------------------------------------------------------------
(* SpecQueue: the event queue of the application (a queue.Queue).  The      *)
(* _worker_generate threads and the _monitor_loop thread put events; the    *)
(* interface thread drains the queue in _process_queue, which reschedules   *)
(* itself with root.after.  An event carries, besides its type and          *)
(* payload, the thread that put it and its rank among that thread's puts.   *)

MaxAlerts == 1   \* overload alerts of _monitor_loop per run

Event(typ, payload, src, n) == [typ |-> typ, payload |-> payload, src |-> src, n |-> n]

QueueGetNewest(s) == [item |-> s[Len(s)], rest |-> SubSeq(s, 1, Len(s) - 1)]

\* queue.Queue.get_nowait() on a non-empty queue: the oldest item leaves
QueueGet(s) == [item |-> Head(s), rest |-> Tail(s)]

\* queue.Queue.put((typ, payload)) by the thread p: the item joins the tail
Enqueue(p, typ, payload) ==
    LET e == Event(typ, payload, p, nput[p] + 1)
    IN  /\ queue' = Append(queue, e)
        /\ enqueued' = Append(enqueued, e)
        /\ nput' = [nput EXCEPT ![p] = @ + 1]

\* self._q.put((typ, payload)) by the thread p, and nothing else
Put(p, typ, payload) ==
    /\ Enqueue(p, typ, payload)
    /\ UNCHANGED <<processed, cpc, workerVars, queueOthers>>

\* _worker_generate: the put of the try block or of the except clause
worker_put_result(w) ==
    /\ nput[w] = 0
    /\ \/ Put(w, "message", "reply")
       \/ Put(w, "error", "exception")

\* _worker_generate: the put of the finally clause
worker_put_status(w) ==
    /\ nput[w] = 1
    /\ Put(w, "status", "Pronto")

\* _monitor_loop: cpu >= 90 or mem >= 90, first put
monitor_put_error ==
    /\ nput["monitor"] < 2 * MaxAlerts
    /\ nput["monitor"] % 2 = 0
    /\ Put("monitor", "error", "[Monitor] Alerta")

\* _monitor_loop: second put
monitor_put_status ==
    /\ nput["monitor"] % 2 = 1
    /\ Put("monitor", "status", "Alerta: sistema sobrecarregado")

\* the timer set by root.after(150, self._process_queue) fires
process_queue_begin ==
    /\ cpc = "waiting"
    /\ cpc' = "draining"
    /\ UNCHANGED <<queue, enqueued, processed, nput, workerVars, queueOthers>>

\* one pass of the while loop: get_nowait returns an event, which is handled
process_event ==
    /\ cpc = "draining"
    /\ queue # <<>>
    /\ queue' = QueueGet(queue).rest
    /\ processed' = Append(processed, QueueGet(queue).item)
    /\ UNCHANGED <<enqueued, nput, cpc, workerVars, queueOthers>>

\* get_nowait raises queue.Empty: the loop ends and the finally clause
\* reschedules the poll
queue_empty ==
    /\ cpc = "draining"
    /\ queue = <<>>
    /\ cpc' = "waiting"
    /\ UNCHANGED <<queue, enqueued, processed, nput, workerVars, queueOthers>>

InitQueue ==
    /\ InitFreshDefault
    /\ history_capacity = MaxCap

NextQueue ==
    \/ \E w \in Workers : worker_put_result(w)
    \/ \E w \in Workers : worker_put_status(w)
    \/ monitor_put_error
    \/ monitor_put_status
    \/ process_queue_begin
    \/ process_event
    \/ queue_empty

\* the interface's event loop runs every timer it was given, and a running
\* handler runs on
SpecQueue ==
    /\ InitQueue
    /\ [][NextQueue]_vars
    /\ WF_vars(process_queue_begin)
    /\ WF_vars(process_event)
    /\ WF_vars(queue_empty)

----------------------------------------------------------------------------
(* SpecWorker: on_send starts a worker thread that runs _worker_generate:   *)
(* generate (the machine of SpecGen), then the put of the reply or of the   *)
(* error, then the put of the status.  The user may load a history file     *)
(* while no worker runs.                                                    *)

\* on_send: a blank input is dropped, any other is handed to a new thread
on_send(p) ==
    /\ wpc = "idle"
    /\ pc = "idle"
    /\ calls < MaxGenCalls
    /\ Strip(p) # ""
    /\ wprompt' = Strip(p)
    /\ wpc' = "thread"
    /\ wbase' = calls
    /\ UNCHANGED <<history, history_capacity, backendVars, raceVars, queueVars, monVars,
                   cleanVars, fileVars>>

\* _worker_generate: reply = self.backend.generate(prompt), entered
worker_generate ==
    /\ wpc = "thread"
    /\ calls = wbase
    /\ Generate(wprompt, TRUE)

\* _worker_generate once generate has returned or raised: the put of the try
\* block, or the put of the except clause
worker_result ==
    /\ wpc = "thread"
    /\ calls = wbase + 1
    /\ pc = "idle"
    /\ IF outcome = "returned"
       THEN Enqueue("w1", "message", reply)
       ELSE Enqueue("w1", "error", ExcMessage(raised))
    /\ wpc' = "finally"
    /\ UNCHANGED <<processed, cpc, wprompt, wbase, queueOthers>>

\* _worker_generate: the put of the finally clause; the thread ends
worker_finally ==
    /\ wpc = "finally"
    /\ Enqueue("w1", "status", "Pronto")
    /\ wpc' = "idle"
    /\ UNCHANGED <<processed, cpc, wprompt, wbase, queueOthers>>

\* on_load_history, chosen by the user while no worker runs
load_between_sends(f) ==
    /\ wpc = "idle"
    /\ LoadIdle(f)

InitSend ==
    /\ InitFresh
    /\ history_capacity \in {1, 2 * MaxGenCalls}
    /\ max_retries \in {0, 1}

NextWorker ==
    \/ \E p \in Prompts : on_send(p)
    \/ worker_generate
    \/ \E o \in NetOutcomes : Attempt(o)
    \/ Wake
    \/ Exhaust
    \/ worker_result
    \/ worker_finally
    \/ \E f \in GenFiles : load_between_sends(f)

SpecWorker == InitSend /\ [][NextWorker]_vars

----------------------------------------------------------------------------
(* SpecWatch: the watchdog (analyzer/monitor.py).  One thread runs          *)
(* start_monitoring; another may call stop().  The monitor is built with a  *)
(* queue, so _emit puts every event.  Percentages are in tenths of a        *)
(* percent.                                                                 *)

MaxTicks == 2   \* ticks of the watchdog loop per run

cpu_threshold == 90
mem_threshold == 85
disk_threshold == 92

SuggestMargin == 6   \* disk_threshold - 6, mem_threshold - 6
CleanMargin == 2     \* disk_threshold - 2
AuditCap == 1000     \* len(self.action_history) > 1000

Tenths(percent) == 10 * percent

OwnPid == 1   \* os.getpid()

Proc(pid, name) == [pid |-> pid, name |-> name]

\* what a tick does, one entry per effect
Emit(typ, name) == [k |-> "emit", typ |-> typ, name |-> name, pid |-> 0]
Call(name, pid) == [k |-> "call", typ |-> "", name |-> name, pid |-> pid]
Record(name) == [k |-> "record", typ |-> "", name |-> name, pid |-> 0]

RecordOnly(name) == <<Record(name)>>

\* self._record_action(name, ...) followed by self._emit("monitor_action", ...)
Logged(name) == <<Record(name), Emit("monitor_action", name)>>

AlertingStrict(s) ==
    \/ s.cpu > Tenths(cpu_threshold)
    \/ s.mem > Tenths(mem_threshold)
    \/ s.disk > Tenths(disk_threshold)

\* cpu >= self.cpu_threshold or mem >= self.mem_threshold or disk >= self.disk_threshold
Alerting(s) ==
    \/ s.cpu >= Tenths(cpu_threshold)
    \/ s.mem >= Tenths(mem_threshold)
    \/ s.disk >= Tenths(disk_threshold)

NotNotifyOnly(a) == a # "B1"

\* AUTONOMY == "B3"
FullAuto(a) == a = "B3"

\* _mitigate_critical(detail)
mitigate_critical(s, repairs) ==
    (IF s.top # <<>>
     THEN <<Call("kill_process", s.top[1].pid)>> \o Logged("kill_top")
     ELSE <<>>)
    \o <<Call("free_memory", 0)>> \o Logged("free_memory")
    \o (IF s.disk # 0 /\ s.disk >= Tenths(disk_threshold - CleanMargin)
        THEN <<Call("clean_temp_folder", 0)>> \o Logged("clean_temp")
        ELSE <<>>)
    \o (IF repairs
        THEN <<Call("_maybe_run_repairs", 0)>> \o Logged("repairs")
        ELSE <<>>)

Denylist == {"system", "svchost", "explorer", "wininit", "python"}

\* any(x in name for x in (...)), name lowercased
Denied(name) == \E x \in Denylist : Contains(Lower(name), x)

\* _auto_free_memory(top_procs), from the i-th process on
RECURSIVE auto_free_memory(_, _)
auto_free_memory(top, i) ==
    IF i > Len(top) THEN <<>>
    ELSE IF top[i].pid = OwnPid \/ Denied(top[i].name) THEN auto_free_memory(top, i + 1)
    ELSE <<Call("kill_process", top[i].pid)>> \o Logged("kill_auto")

\* _check_once after a sample was taken
check_once(s, a, repairs) ==
    <<Emit("monitor_log", "heartbeat")>>
    \o (IF Alerting(s)
        THEN <<Emit("monitor_alert", "alert")>>
             \o (IF FullAuto(a) THEN mitigate_critical(s, repairs) ELSE <<>>)
        ELSE (IF s.disk >= Tenths(disk_threshold - SuggestMargin)
              THEN <<Emit("monitor_suggest", "clean_temp")>>
              ELSE <<>>)
             \o (IF s.mem >= Tenths(mem_threshold - SuggestMargin) /\ FullAuto(a)
                 THEN auto_free_memory(s.top, 1)
                 ELSE <<>>))

\* the except clause left without its _emit
TickEffectsSilent(s, a, repairs) ==
    IF s.error THEN <<>> ELSE check_once(s, a, repairs)

\* the body of the while loop up to the sleep: _check_once, or, when the
\* sampling raises, the except clause of start_monitoring
TickEffects(s, a, repairs) ==
    IF s.error THEN <<Emit("monitor_log", "monitor loop error")>>
    ELSE check_once(s, a, repairs)

IsRecord(e) == e.k = "record"
IsActionEvent(e) == e.k = "emit" /\ e.typ = "monitor_action"

Names(es) == [i \in 1..Len(es) |-> es[i].name]

\* _record_action's cap: self.action_history[-1000:]
CapAudit(h) == IF Len(h) > AuditCap THEN LastSlice(h, AuditCap) ELSE h

\* start_monitoring: self._running = True, then time.sleep(0.5)
start_monitoring ==
    /\ mpc = "launched"
    /\ running' = TRUE
    /\ mpc' = "startsleep"
    /\ UNCHANGED <<autonomy, allow_repairs, action_history, actionEvents, recorded, tickTrace,
                   sample, ticks, stopTick, monOthers>>

\* time.sleep returns: the loop test comes next
sleep_over ==
    /\ mpc \in {"startsleep", "sleep"}
    /\ mpc' = "while"
    /\ UNCHANGED <<running, autonomy, allow_repairs, action_history, actionEvents, recorded,
                   tickTrace, sample, ticks, stopTick, monOthers>>

\* the loop test passes and one tick runs, up to time.sleep(self.interval)
tick(s) ==
    /\ mpc = "while"
    /\ running
    /\ ticks < MaxTicks
    /\ LET effects == TickEffects(s, autonomy, allow_repairs)
       IN  /\ tickTrace' = effects
           /\ action_history' = CapAudit(action_history \o Names(SelectSeq(effects, IsRecord)))
           /\ recorded' = recorded \o Names(SelectSeq(effects, IsRecord))
           /\ actionEvents' = actionEvents \o Names(SelectSeq(effects, IsActionEvent))
    /\ sample' = s
    /\ ticks' = ticks + 1
    /\ mpc' = "sleep"
    /\ UNCHANGED <<running, autonomy, allow_repairs, stopTick, monOthers>>

\* the loop test fails: start_monitoring returns
loop_exit ==
    /\ mpc = "while"
    /\ ~running
    /\ mpc' = "exited"
    /\ UNCHANGED <<running, autonomy, allow_repairs, action_history, actionEvents, recorded,
                   tickTrace, sample, ticks, stopTick, monOthers>>

\* stop(), called by another thread once the watchdog thread was launched
stop ==
    /\ mpc # "none"
    /\ stopTick = -1
    /\ running' = FALSE
    /\ stopTick' = ticks
    /\ UNCHANGED <<mpc, autonomy, allow_repairs, action_history, actionEvents, recorded,
                   tickTrace, sample, ticks, monOthers>>

TopLists ==
    { <<>>,
      <<Proc(OwnPid, "Analyzer"), Proc(2, "Python3"), Proc(3, "chrome")>>,
      <<Proc(4, "System")>> }

Samples ==
    { Sample(c, m, d, t) : c \in {899, 900}, m \in {0, 790, 850}, d \in {0, 860, 900, 920},
                           t \in TopLists }

InitWatch ==
    /\ InitBackend
    /\ history_capacity = MaxCap
    /\ max_retries = DefaultMaxRetries
    /\ InitThreads
    /\ InitChannel
    /\ InitWorker
    /\ InitNoClean
    /\ InitMonitorFields
    /\ mpc = "launched"
    /\ autonomy \in {"B1", "B2", "B3"}
    /\ allow_repairs \in BOOLEAN

NextWatch ==
    \/ start_monitoring
    \/ sleep_over
    \/ \E s \in Samples \cup {NoSample} : tick(s)
    \/ loop_exit
    \/ stop

SpecWatch == InitWatch /\ [][NextWatch]_vars

\* SpecWatchLive: the loop under a scheduler that runs the watchdog thread.
\* A tick's sampling raises, or gives a calm sample, or one that alerts on
\* every metric with processes at hand.
LiveSamples ==
    { NoSample,
      Sample(899, 0, 0, <<>>),
      Sample(900, 850, 920, <<Proc(OwnPid, "Analyzer"), Proc(2, "Python3"), Proc(3, "chrome")>>) }

some_tick == \E s \in LiveSamples : tick(s)

NextWatchLive ==
    \/ start_monitoring
    \/ sleep_over
    \/ some_tick
    \/ loop_exit
    \/ stop

\* a sleep ends, and a loop test that keeps passing is followed by the tick
SpecWatchLive ==
    /\ InitWatch
    /\ [][NextWatchLive]_vars
    /\ WF_vars(sleep_over)
    /\ WF_vars(some_tick)

----------------------------------------------------------------------------
(* SpecClean: clean_temp_folder(paths).  A base directory is missing (or    *)
(* its name is empty), cannot be listed (os.listdir raises), or is listed;  *)
(* a child of a listed base is a file, a link, a directory, or something    *)
(* else (a socket, a FIFO, a device).  A path is the pair of the index of   *)
(* its base and its index in os.listdir(base); a base alone is <<i, 0>>.    *)

MaxBases == 2      \* directories handed to clean_temp_folder
MaxChildren == 2   \* children of one directory

ChildKinds == {"file", "link", "dir", "other"}

Bases ==
    { [state |-> "missing", names |-> <<>>], [state |-> "unlistable", names |-> <<>>] }
    \cup { [state |-> "listed", names |-> ns] : ns \in SeqsUpTo(ChildKinds, MaxChildren) }

CleanRunning == cpos.base <= Len(paths)

\* for base in paths: "continue" past a missing base, os.listdir(base)
clean_enter_base ==
    /\ CleanRunning
    /\ cpos.child = 0
    /\ LET base == paths[cpos.base]
       IN  CASE base.state = "missing" ->
                   /\ cpos' = [base |-> cpos.base + 1, child |-> 0]
                   /\ UNCHANGED failed
             [] base.state = "unlistable" ->
                   /\ cpos' = [base |-> cpos.base + 1, child |-> 0]
                   /\ failed' = Append(failed, [path |-> <<cpos.base, 0>>, reason |-> "OSError"])
             [] OTHER ->
                   /\ cpos' = IF base.names = <<>>
                              THEN [base |-> cpos.base + 1, child |-> 0]
                              ELSE [base |-> cpos.base, child |-> 1]
                   /\ UNCHANGED failed
    /\ UNCHANGED <<paths, removed, deleted>>
    /\ UNCHANGED <<history, history_capacity, backendVars, raceVars, queueVars, workerVars,
                   monVars, fileVars>>

\* the position after the child the inner loop is at
CleanAdvance ==
    IF cpos.child < Len(paths[cpos.base].names)
    THEN [base |-> cpos.base, child |-> cpos.child + 1]
    ELSE [base |-> cpos.base + 1, child |-> 0]

\* one pass of "for name in os.listdir(base)"; `works` tells whether the
\* file system lets the deletion happen
clean_child(works) ==
    /\ CleanRunning
    /\ cpos.child > 0
    /\ LET fp == <<cpos.base, cpos.child>>
           kind == paths[cpos.base].names[cpos.child]
       IN  CASE kind \in {"file", "link"} ->
                   \* os.remove(fp); removed.append(fp), or the except clause
                   IF works
                   THEN /\ deleted' = deleted \cup {fp}
                        /\ removed' = Append(removed, fp)
                        /\ UNCHANGED failed
                   ELSE /\ failed' = Append(failed, [path |-> fp, reason |-> "OSError"])
                        /\ UNCHANGED <<removed, deleted>>
             [] kind = "dir" ->
                   \* shutil.rmtree(fp, ignore_errors=True); removed.append(fp)
                   /\ deleted' = IF works THEN deleted \cup {fp} ELSE deleted
                   /\ removed' = Append(removed, fp)
                   /\ UNCHANGED failed
             [] OTHER ->
                   \* neither branch of the if / elif
                   /\ works
                   /\ UNCHANGED <<removed, failed, deleted>>
    /\ cpos' = CleanAdvance
    /\ UNCHANGED paths
    /\ UNCHANGED <<history, history_capacity, backendVars, raceVars, queueVars, workerVars,
                   monVars, fileVars>>

InitClean ==
    /\ InitBackend
    /\ history_capacity = MaxCap
    /\ max_retries = DefaultMaxRetries
    /\ InitThreads
    /\ InitChannel
    /\ InitWorker
    /\ InitNoWatchdog
    /\ paths \in { ps \in SeqsUpTo(Bases, MaxBases) : ps # <<>> }
    /\ cpos = [base |-> 1, child |-> 0]
    /\ removed = <<>>
    /\ failed = <<>>
    /\ deleted = {}

NextClean ==
    \/ clean_enter_base
    \/ \E works \in BOOLEAN : clean_child(works)

SpecClean == InitClean /\ [][NextClean]_vars

----------------------------------------------------------------------------
(* Claims *)

C2_SystemPinned ==
    /\ history # <<>>
    /\ history[1].role = "system"
    /\ \A i \in 2..Len(history) : history[i].role # "system"

\* C3: pushing capacity + 5 user/assistant pairs onto a fresh history leaves
\* exactly the original system message followed by the most recent
\* `capacity` pairs, in insertion order.
C3_LastCapacityPairs ==
    Len(pushed) = 2 * PairsWanted =>
        history = <<SystemMsg>> \o LastSlice(pushed, 2 * history_capacity)

\* C4: every generate call, for every prompt and every behaviour of the
\* server, returns to its caller without raising and returns a non-empty text.
C4_AlwaysReplies ==
    (pc = "idle" /\ outcome # "none") => (outcome = "returned" /\ reply # "")

\* C5: with max_retries = 3 and every network call failing with a transient
\* transport error, one generate call sleeps exactly three times, for 2, 4 and
\* 8 seconds in that order, and then reaches exhaustion with no further sleep.
C5_ThreeSleeps ==
    (max_retries = 3 /\ onlyTransient /\ loopExit = "RequestException") =>
        sleeps = <<2, 4, 8>>

\* C6 (as claimed): the backoff sleep after the k-th consecutive transient
\* failure, k <= max_retries, lasts 2, 4, 8, 16 seconds for k = 1..4 and 30
\* seconds for every k >= 5.
C6_BackoffCap30 ==
    onlyTransient =>
        \A k \in 1..Len(sleeps) :
            k <= max_retries =>
                sleeps[k] = CASE k = 1 -> 2 [] k = 2 -> 4 [] k = 3 -> 8 [] k = 4 -> 16
                              [] OTHER -> 30

\* C6 (amended): the backoff sleep after the k-th consecutive failed attempt
\* of one generate call lasts 2, 4, 8, 16 seconds for k = 1..4 and 20 seconds
\* for every k >= 5.
C6_BackoffCap20 ==
    \A k \in 1..Len(sleeps) :
        sleeps[k] = CASE k = 1 -> 2 [] k = 2 -> 4 [] k = 3 -> 8 [] k = 4 -> 16
                      [] OTHER -> 20

\* the fifth consecutive transient failure of a call has been slept on
C6_Witness ==
    /\ onlyTransient
    /\ max_retries >= 5
    /\ Len(sleeps) >= 5
    /\ sleeps[5] = 20

\* a failure that is no transient transport error: an HTTP 4xx answer, or an
\* error while the stream of a 2xx answer is decoded
IsHardFailure(o) ==
    /\ o.kind = "response"
    /\ \/ o.status >= 400 /\ o.status < 500
       \/ o.status < 400 /\ ApiExc(o.lines, prefer_chat) # "none"

\* C7: a network attempt is followed by a retry only when it failed with a
\* transient transport error; any other failure (an HTTP 4xx, an error while
\* decoding the stream) ends the attempt loop at once, with no backoff sleep
\* and no further network call, and leaves the loop as an error.
C7_RetryOnlyTransient ==
    /\ pc = "sleep" => IsTransient(lastCall)
    /\ IsHardFailure(lastCall) =>
           (pc = "idle" /\ loopExit # "none" /\ loopExit # "return")

\* the lines that decode to a dict
IsFragment(l) == l.kind \in {"message", "response", "text", "choices", "unknown"}

\* the index of the first fragment with done = true, or the last index
FirstDone(ls) ==
    IF \E i \in 1..Len(ls) : IsFragment(ls[i]) /\ ls[i].done
    THEN CHOOSE i \in 1..Len(ls) :
             /\ IsFragment(ls[i]) /\ ls[i].done
             /\ \A j \in 1..(i - 1) : ~(IsFragment(ls[j]) /\ ls[j].done)
    ELSE Len(ls)

RECURSIVE ConcatChat(_, _)
\* the texts of the first n lines, concatenated in arrival order
ConcatChat(ls, n) ==
    IF n = 0 THEN "" ELSE ConcatChat(ls, n - 1) \o ChatFragmentText(ls[n])

ChatReturned == calls = 1 /\ pc = "idle" /\ netCalls = 1 /\ prefer_chat /\ callExc = "none"

\* C8 (as claimed): the assembled reply of the chat endpoint is the
\* concatenation, in arrival order, of the text of every fragment up to and
\* including the first fragment with done = true, or of all fragments when
\* the stream closes without one.
C8_AssembledIsConcat ==
    ChatReturned =>
        assembled = ConcatChat(lastCall.lines, FirstDone(lastCall.lines))

\* C8 (amended): the assembled reply is that concatenation with its leading
\* and trailing whitespace removed.
C8_AssembledIsStrippedConcat ==
    ChatReturned =>
        assembled = Strip(ConcatChat(lastCall.lines, FirstDone(lastCall.lines)))

\* the stream He, "llo the", re, done has been assembled
C8_Witness ==
    /\ ChatReturned
    /\ lastCall.lines = <<Line("message", "He", FALSE), Line("message", "llo the", FALSE),
                          Line("message", "re", FALSE), Final>>
    /\ assembled = "Hello there"

IsSkippable(l) == l.kind \in {"notjson", "unknown", "nondict"}

IsKept(l) == ~IsSkippable(l)

\* C9: a line that is no JSON, or that decodes to a value of no known shape
\* (a dict with unknown keys, a JSON value that is no dict), contributes no
\* text and does not abort the call: no error is raised and the reply is the
\* one assembled from the other lines.
C9_BadLinesSkipped ==
    (calls = 1 /\ netCalls = 1) =>
        /\ callExc = "none"
        /\ assembled = ApiAssembled(SelectSeq(lastCall.lines, IsKept), prefer_chat)

\* a prompt the fast-path solver of the specification answers locally
FastPathPrompt == "what is 2+2"

FastPathAnswer == "4"

\* C10: for a prompt the fast-path solver recognises, generate appends the
\* locally computed answer to the history as an assistant message and returns
\* it without issuing any network call and without entering the retry loop.
C10_FastPathNoNetwork ==
    (messages # <<>> /\ messages[Len(messages)].content = FastPathPrompt) =>
        /\ netCalls = 0
        /\ pc = "idle"
        /\ outcome = "returned"
        /\ reply = FastPathAnswer
        /\ history[Len(history)] = Msg("assistant", FastPathAnswer)

\* the state (history, capacity) after the whole operation op, run alone
SerialOp(st, op) ==
    CASE op.kind = "push" ->
             [h |-> AfterTruncate(Append(st.h, Msg(op.role, op.text)), st.cap), cap |-> st.cap]
      [] op.kind = "clear" -> [h |-> <<SystemMsg>>, cap |-> st.cap]
      [] op.kind = "load" -> [h |-> AfterTruncate(LoadRepaired(op.list), st.cap), cap |-> st.cap]
      [] OTHER -> [h |-> AfterTruncate(st.h, op.cap), cap |-> op.cap]

RECURSIVE SerialRun(_, _)
SerialRun(st, s) == IF s = <<>> THEN st ELSE SerialRun(SerialOp(st, Head(s)), Tail(s))

\* the serial orders of two threads' operations: each thread's own order kept
RECURSIVE Merges(_, _)
Merges(a, b) ==
    IF a = <<>> THEN {b}
    ELSE IF b = <<>> THEN {a}
    ELSE { <<Head(a)>> \o m : m \in Merges(Tail(a), b) }
         \cup { <<Head(b)>> \o m : m \in Merges(a, Tail(b)) }

\* C11: for every interleaving of the worker's push_user / push_assistant
\* with the consumer's clear, load or settings-apply, once no operation is
\* in progress the history equals the result of running the operations
\* started so far, whole, in some serial order: no append and no clear is lost.
C11_SerialEquivalent ==
    (\A t \in Threads : tpc[t] = "idle") =>
        \E m \in Merges(ops["worker"], ops["consumer"]) :
            SerialRun([h |-> <<SystemMsg>>, cap |-> MaxCap], m).h = history

InSeq(e, s) == \E i \in 1..Len(s) : s[i] = e

\* every event a producer may put
AllEvents ==
    { Event("message", "reply", w, 1) : w \in Workers }
    \cup { Event("error", "exception", w, 1) : w \in Workers }
    \cup { Event("status", "Pronto", w, 2) : w \in Workers }
    \cup { Event("error", "[Monitor] Alerta", "monitor", 2 * k - 1) : k \in 1..MaxAlerts }
    \cup { Event("status", "Alerta: sistema sobrecarregado", "monitor", 2 * k) :
               k \in 1..MaxAlerts }

\* the events handled so far, followed by those still queued, are the events
\* put, in the order of the puts: none is lost, none is handled twice, and
\* the events of one producer are handled in the order it put them
C12_Fifo ==
    /\ enqueued = processed \o queue
    /\ \A i, j \in 1..Len(processed) : i # j => processed[i] # processed[j]
    /\ \A i, j \in 1..Len(processed) :
           (i < j /\ processed[i].src = processed[j].src) => processed[i].n < processed[j].n

\* a poll reschedules itself only once it has found the queue empty
C12_PollDrains == (cpc = "draining" /\ cpc' = "waiting") => queue = <<>>

\* C12: with several producer threads enqueueing concurrently and one
\* consumer, every event put on the queue is dequeued exactly once, the
\* events of one producer are processed in the order it enqueued them, and
\* each poll processes all events queued at that time before it reschedules.
C12_ExactlyOnceInOrder ==
    /\ []C12_Fifo
    /\ [][C12_PollDrains]_vars
    /\ \A e \in AllEvents : InSeq(e, queue) ~> InSeq(e, processed)

\* a poll has found the queue empty after the events of all three producers,
\* put interleaved (between the two events of each worker lies another
\* thread's), were handled
C12_Witness ==
    /\ cpc = "draining"
    /\ queue = <<>>
    /\ \A p \in Producers : nput[p] = 2
    /\ Len(processed) = 2 * Cardinality(Producers)
    /\ \A i \in 1..(Len(processed) - 1) : processed[i].src # processed[i + 1].src

\* C13: for every run of the generate worker, the reply is pushed to the
\* history as an assistant message before exactly one message event carrying
\* that same reply text is enqueued, and a status 'Pronto' event is enqueued
\* after it; on every path the status event is the worker's last event.
\* (Each run puts two events: the odd ranks are the runs' first events.)
C13_ReplyThenStatus ==
    /\ \A i \in 1..Len(enqueued) :
           IF i % 2 = 1
           THEN enqueued[i].typ = "message"
           ELSE enqueued[i].typ = "status" /\ enqueued[i].payload = "Pronto"
    /\ wpc = "finally" =>
           /\ history # <<>>
           /\ history[Len(history)] = Msg("assistant", enqueued[Len(enqueued)].payload)
    /\ wpc = "idle" => Len(enqueued) % 2 = 0

HasEvent(typ) == \E i \in 1..Len(tickTrace) : tickTrace[i].k = "emit" /\ tickTrace[i].typ = typ

C15_HeartbeatEveryTick ==
    ticks > 0 =>
        \E i \in 1..Len(tickTrace) : tickTrace[i] = Emit("monitor_log", "heartbeat")

\* C16: when the autonomy level is not B3, no tick calls kill_process,
\* free_memory, clean_temp_folder or the repair routine, appends to
\* action_history or emits an action event, whatever the sample.
C16_NoMitigationBelowB3 ==
    autonomy # "B3" =>
        /\ \A i \in 1..Len(tickTrace) :
               /\ tickTrace[i].k = "emit"
               /\ tickTrace[i].typ # "monitor_action"
        /\ action_history = <<>>
        /\ recorded = <<>>
        /\ actionEvents = <<>>

\* under B2 a tick alerted on a full disk and high memory, with processes
\* at hand to kill
C16_Witness ==
    /\ autonomy = "B2"
    /\ ticks > 0
    /\ sample.top # <<>>
    /\ sample.disk >= 920
    /\ sample.mem >= 850
    /\ HasEvent("monitor_alert")

\* the name under which a mitigation routine's call is logged
LoggedAs(call) ==
    CASE call = "kill_process" -> {"kill_top", "kill_auto"}
      [] call = "free_memory" -> {"free_memory"}
      [] call = "clean_temp_folder" -> {"clean_temp"}
      [] OTHER -> {"repairs"}

C18_StopStopsTicks ==
    stopTick # -1 => ticks <= stopTick + 1

\* a file content that is JSON but no array, or an array with an element
\* that is no object
Malformed(f) ==
    \/ f.kind = "notlist"
    \/ f.kind = "list" /\ \E i \in 1..Len(f.list) : ~f.list[i].dict

\* C20: loading a persisted history whose content is malformed (JSON that is
\* not an array, or an array with an element that is not a message object)
\* fails with an error propagated to the caller of load; it is never silently
\* ignored or accepted.
C20_MalformedLoadFails ==
    (lastOp.op = "load_history_from_file" /\ Malformed(lastOp.file)) => raised # "none"

\* C19: for every history reachable by push_user, push_assistant,
\* clear_history and load, saving the history to a file and loading that file
\* back leaves the history identical to what it was before the save.
C19_RoundTrip ==
    [][(/\ lastOp.op = "save_history_to_file"
        /\ lastOp'.op = "load_history_from_file"
        /\ lastOp'.file = JsonLoad(saved))
       => history' = history]_vars

\* no forbidden term has a case-insensitive match in x
NoForbidden(x) == \A i \in 1..Len(forbidden) : ~Contains(Lower(x), forbidden[i])

\* C21: the post-processor is idempotent on text without forbidden terms:
\* for every text x that holds no forbidden term (short texts under 8
\* characters and texts with blank lines included),
\* process(process(x)) = process(x).
C21_Idempotent ==
    (calls = 2 /\ NoForbidden(assembled)) => reply = post_process_reply(assembled)

\* the sentences of s from position p on (a sentence ends with its . ? or !)
\* that hold no forbidden term, joined in order
RECURSIVE KeptSentences(_, _)
KeptSentences(s, p) ==
    IF p > Len(s) THEN ""
    ELSE LET q == StretchEnd(s, p)
             sentence == SubSeq(s, p, IF q > Len(s) THEN Len(s) ELSE q)
         IN  (IF NoForbidden(sentence) THEN sentence ELSE "") \o KeptSentences(s, q + 1)

\* C22 as stated: for a text made of sentences delimited by . ? !, the
\* post-processor returns exactly the sentences without a forbidden term,
\* unchanged and in order, and the policy notice when every sentence holds one.
C22_ExactSentences ==
    (calls = 1 /\ assembled # "") =>
        reply = IF KeptSentences(assembled, 1) = "" THEN PolicyNotice
                ELSE KeptSentences(assembled, 1)

\* C22, amended: the post-processor returns the sentences of the
\* whitespace-normalised text that hold no case-insensitive match of a
\* forbidden term, in order, with the whitespace around the result removed;
\* the policy notice when nothing is left; and the clarification request is
\* appended when that result is shorter than 8 characters.
C22_KeptSentencesFinished ==
    (calls = 1 /\ assembled # "") =>
        LET kept == Strip(KeptSentences(Strip(CollapseFrom(assembled, 1)), 1))
            text == IF kept = "" THEN PolicyNotice ELSE kept
        IN  reply = IF Len(text) < MinReplyLen THEN text \o ClarifySuffix ELSE text

\* a text of three sentences was processed and its middle sentence, the one
\* with a forbidden term, is gone
C22_Witness ==
    /\ calls = 1
    /\ assembled = "Hi. I use OpenAI! Fine, thanks."
    /\ reply = "Hi. Fine, thanks."

\* the number of entries of the list l that p holds for
Count(l, P(_)) == Cardinality({ i \in 1..Len(l) : P(l[i]) })

\* C23: clean_temp_folder reports every item: when it returns, each direct
\* child of each listed directory is in exactly one of the lists removed and
\* failed, and a path is listed in removed only if it was actually deleted.
C23_EveryItemReported ==
    ~CleanRunning =>
        /\ \A i \in 1..Len(paths) : \A j \in 1..Len(paths[i].names) :
              LET IsPath(x) == x = <<i, j>>
                  FailedPath(x) == x.path = <<i, j>>
              IN  Count(removed, IsPath) + Count(failed, FailedPath) = 1
        /\ \A k \in 1..Len(removed) : removed[k] \in deleted

\* the tick called the routine `name`
HasCall(name) == \E i \in 1..Len(tickTrace) : tickTrace[i].k = "call" /\ tickTrace[i].name = name

\* the tick logged an action under `name`
HasRecord(name) ==
    \E i \in 1..Len(tickTrace) : tickTrace[i].k = "record" /\ tickTrace[i].name = name

\* C24: the classification of a tick takes at most one branch, in the order
\* alert, else suggest, else memory-margin kill: a tick that emits a suggest
\* event terminates no process, and a tick that emits an alert emits no
\* suggest event and performs no memory-margin kill (kill_auto).
C24_OneBranch ==
    /\ HasEvent("monitor_suggest") => ~HasCall("kill_process")
    /\ HasEvent("monitor_alert") => ~HasEvent("monitor_suggest") /\ ~HasRecord("kill_auto")

\* a tick in which an exception reached the except clause of start_monitoring
ErrorTick == ticks' = ticks + 1 /\ sample'.error

C26_FallbackToGenerate ==
    (/\ pc = "idle"
     /\ outcome # "none"
     /\ netCalls > 0
     /\ Posted[1] = "/api/chat"
     /\ loopExit # "return")
    => \E i \in 1..netCalls : Posted[i] = "/api/generate"

InCall == pc \in {"loop", "sleep"}

\* C27: for generate(p) with a non-blank prompt p, the message list of every
\* attempt is the snapshot of the history taken after p was appended to it as
\* a user message, followed by one more user message carrying p, and the list
\* stays the same through every retry of the call.
C27_SnapshotPlusPrompt ==
    /\ [](InCall =>
            \E p \in Prompts :
                /\ Strip(p) # ""
                /\ history # <<>>
                /\ history[Len(history)] = Msg("user", Strip(p))
                /\ messages = history \o <<Msg("user", Strip(p))>>)
    /\ [][InCall => messages' = messages]_vars

\* the chat call is in its second retry, with the list it started with
C27_Witness ==
    /\ pc = "loop"
    /\ prefer_chat
    /\ attempt = 2
    /\ netCalls = 2
    /\ messages = <<SystemMsg, Msg("user", "hi"), Msg("user", "hi")>>

\* C28: with history_capacity = 0, after every push_user / push_assistant the
\* history is exactly the single system message: truncation keeps no user or
\* assistant message.
C28_CapacityZeroKeepsNone ==
    (history_capacity = 0 /\ calls > 0) => history = <<SystemMsg>>

\* C29: a pushed message is never lost by its own push: for every history
\* reachable by push, clear_history (keep_system true or false) and load, and
\* every capacity >= 1, after push_user(t) or push_assistant(t) the last
\* element of the history is the message t with the given role.
C29_PushKeepsMessage ==
    [][\A t \in Texts :
          /\ (history_capacity >= 1 /\ push_user(t)) =>
                 (history' # <<>> /\ history'[Len(history')] = Msg("user", t))
          /\ (history_capacity >= 1 /\ push_assistant(t)) =>
                 (history' # <<>> /\ history'[Len(history')] = Msg("assistant", t))]_vars

\* a step that is a call of generate
GenerateCalled == lastOp'.op = "generate" /\ calls' = calls + 1

\* generate returned "" at once: the stripped prompt is empty
BlankPrompt == pc' = "idle" /\ outcome' = "returned" /\ netCalls' = 0 /\ reply' = ""

\* the history h with m appended: m is its last element, and nothing else
\* changed when the capacity was not yet reached
Appended(h, m, new) ==
    /\ new # <<>>
    /\ new[Len(new)] = m
    /\ Len(h) < history_capacity + 1 => new = Append(h, m)

\* C30: every generate call with a non-blank prompt, whatever its outcome,
\* appends to the history exactly one user message carrying the stripped
\* prompt and then exactly one assistant message whose content is the text
\* returned to the caller, and nothing else: the call starts by appending the
\* prompt, leaves the history alone while it talks to the server, and ends by
\* appending what it returns.
C30_UserThenAssistant ==
    [][/\ (GenerateCalled /\ ~BlankPrompt) =>
              /\ pc' = "loop"
              /\ messages' # <<>>
              /\ Appended(history, messages'[Len(messages')], history')
       /\ (InCall /\ pc' # "idle") => history' = history
       /\ (InCall /\ pc' = "idle") =>
              /\ outcome' = "returned"
              /\ Appended(history, Msg("assistant", reply'), history')]_vars

\* the positions of the last tick's effects that are calls of kill_process
Kills == { i \in 1..Len(tickTrace) : tickTrace[i].k = "call" /\ tickTrace[i].name = "kill_process" }

\* the sampled process with this pid is one the watchdog must spare
Spared(pid) ==
    \/ pid = OwnPid
    \/ \E j \in 1..Len(sample.top) : sample.top[j].pid = pid /\ Denied(sample.top[j].name)

\* C31: in no tick and on no mitigation path (kill_top of the critical-alert
\* mitigation, kill_auto of the memory margin) does the watchdog terminate its
\* own process or a process whose name contains a denylisted substring, and it
\* terminates at most one process per tick.
C31_NeverKillsSpared ==
    /\ Cardinality(Kills) <= 1
    /\ \A i \in Kills : ~Spared(tickTrace[i].pid)

\* a step that is a call of load_history_from_file ending in an exception
LoadRaised ==
    /\ calls' = calls + 1
    /\ lastOp'.op = "load_history_from_file"
    /\ raised' # "none"

\* C32: when load_history_from_file raises (unreadable file, or a content
\* that is not a list of message objects, wherever the bad element is), the
\* history is exactly what it was before the call.
C32_FailedLoadKeepsHistory ==
    [][LoadRaised => history' = history]_vars

====
